---- MODULE Spec2Model ----
(***************************************************************************)
(* The three generators of the combinatorial crate: Combinations,          *)
(* CombinationsWithReplacement (src/src/combinations.rs) and Permutations  *)
(* with its AvailableList (src/src/permutations.rs).                       *)
(*                                                                         *)
(* One behaviour of the model is one generator instance: a constructor is  *)
(* called on an input, then next() is called repeatedly.  Every value a    *)
(* call returns is appended to `returned`; the index vector it was mapped  *)
(* from is appended to `captured`.                                         *)
(*                                                                         *)
(* Vec<usize> indices keep the source's values (0-based positions, 1-based *)
(* available-list indices); a TLA+ sequence s models a Vec v by            *)
(* v[i] = s[i + 1].  Option<X> is modelled by None == <<>>, Some(x) ==     *)
(* <<x>>.  A panic stops the instance: `panicked` becomes TRUE and no      *)
(* further call is made.                                                   *)
(***************************************************************************)
EXTENDS Integers, Sequences, FiniteSets, TLC

\* Bounds of the model
MaxLen == 3     \* longest input sequence
MaxVal == 3     \* input values are drawn from 1..MaxVal
MaxSize == 4    \* largest requested size / length
MaxCalls == 22  \* number of next() calls made on one instance
MaxListCalls == 4   \* number of direct calls made on one AvailableList
MaxPositions == 3   \* longest position vector a private method is handed
MaxPositionCalls == 1   \* number of direct calls made on one position vector

\* usize::MAX of the smallest usize Rust supports (16 bits); the value that
\* `0 - 1` wraps to when overflow checks are off.
USIZE_MAX == 65535

None == <<>>
Some(v) == <<v>>
IsSome(o) == Len(o) = 1
IsNone(o) == Len(o) = 0
Unwrap(o) == o[1]

Inputs == UNION {[1..n -> 1..MaxVal] : n \in 0..MaxLen}
Profiles == {"debug", "release"}

VARIABLES
    profile,      \* cargo profile: "debug" has overflow checks and debug assertions
    input,        \* the iterable handed to the constructor
    kind,         \* "none" | "Combinations" | "CombinationsWithReplacement" | "Permutations"
    ctor,         \* "all" | "of_size" | "new" | "of_length"
    size,         \* the size / perm_length argument of of_size / of_length
    elements,     \* self.elements
    positions,    \* self.positions (both combination structs)
    all_sizes,    \* self.all_sizes
    done,         \* self.done
    entries,      \* self.avail_list.entries, a function on 0..len-1
    stack,        \* self.stack
    perm_length,  \* self.perm_length
    panicked,     \* a constructor or next() call panicked
    returned,     \* the Option values returned by the next() calls so far
    captured,     \* the index vector staged at the start of each next() call
    list_ops,     \* the remove and add calls made on self.avail_list so far
    calls         \* the calls of private methods made so far, with their outcome

vars == <<profile, input, kind, ctor, size, elements, positions, all_sizes, done,
          entries, stack, perm_length, panicked, returned, captured, list_ops,
          calls>>

\* overflow-checks / debug-assertions of the profile
OverflowChecks == profile = "debug"
DebugAssertions == profile = "debug"

----------------------------------------------------------------------------
\* iterable_to_sorted_set: collect into a BTreeSet, then iterate it ascending

RECURSIVE SetToSortedSeq(_)
SetToSortedSeq(S) ==
    IF S = {} THEN <<>>
    ELSE LET m == CHOOSE x \in S : \A y \in S : x <= y
         IN <<m>> \o SetToSortedSeq(S \ {m})

\* Faulty variant of the operator below: the items are collected as they come,
\* neither sorted nor deduplicated.
iterable_to_sorted_set_AsGiven(elems) == elems

iterable_to_sorted_set(elems) == SetToSortedSeq({elems[i] : i \in DOMAIN elems})

----------------------------------------------------------------------------
\* Combinations

Combinations_all(elems) ==
    [elements |-> iterable_to_sorted_set(elems),
     positions |-> <<>>,
     all_sizes |-> TRUE,
     done |-> FALSE]

\* Faulty variant of the operator below: every position starts at 0.
Combinations_of_size_Zeros(elems, sz) ==
    [elements |-> iterable_to_sorted_set(elems),
     positions |-> [i \in 1..sz |-> 0],
     all_sizes |-> FALSE,
     done |-> FALSE]

Combinations_of_size(elems, sz) ==
    [elements |-> iterable_to_sorted_set(elems),
     positions |-> [i \in 1..sz |-> i - 1],
     all_sizes |-> FALSE,
     done |-> FALSE]

\* Faulty variant of the operator below: pushes the new position without
\* resetting the existing ones.
Combinations_move_to_next_set_size_NoReset(self) ==
    IF Len(self.positions) >= Len(self.elements)
    THEN [self |-> self, ret |-> FALSE]
    ELSE [self |-> [self EXCEPT !.positions =
                      Append(self.positions, Len(self.positions))],
          ret |-> TRUE]

\* Faulty variant of the operator below: the size test is off by one
\* (`positions.len() > elements.len()`).
Combinations_move_to_next_set_size_PastDomain(self) ==
    IF Len(self.positions) > Len(self.elements)
    THEN [self |-> self, ret |-> FALSE]
    ELSE LET reset == [i \in 1..Len(self.positions) |-> i - 1]
         IN [self |-> [self EXCEPT !.positions = Append(reset, Len(reset))],
             ret |-> TRUE]

\* returns [self, ret]
Combinations_move_to_next_set_size(self) ==
    IF Len(self.positions) >= Len(self.elements)
    THEN [self |-> self, ret |-> FALSE]
    ELSE LET reset == [i \in 1..Len(self.positions) |-> i - 1]
         IN [self |-> [self EXCEPT !.positions = Append(reset, Len(reset))],
             ret |-> TRUE]

\* Faulty variant of the loop below: the room test compares with the right
\* neighbour itself (`cur_position < positions[index + 1]`), not with the
\* neighbour minus one.
RECURSIVE Combinations_move_to_next_position_loop_NoRoomCheck(_, _)
Combinations_move_to_next_position_loop_NoRoomCheck(self, index) ==
    IF index < 0 THEN [self |-> self, ret |-> FALSE, panic |-> FALSE]
    ELSE
      LET length == Len(self.positions)
          cur_position == self.positions[index + 1]
      IN IF cur_position >= Len(self.elements) - 1
         THEN Combinations_move_to_next_position_loop_NoRoomCheck(self, index - 1)
         ELSE IF index = length - 1 \/ cur_position < self.positions[index + 2]
         THEN [self |-> [self EXCEPT !.positions =
                           [i \in 1..length |->
                              IF i - 1 < index THEN self.positions[i]
                              ELSE cur_position + 1 + (i - 1 - index)]],
               ret |-> TRUE, panic |-> FALSE]
         ELSE Combinations_move_to_next_position_loop_NoRoomCheck(self, index - 1)

\* the body of `for index in (0..self.positions.len()).rev()`, from `index` down
\* returns [self, ret, panic]
RECURSIVE Combinations_move_to_next_position_loop(_, _)
Combinations_move_to_next_position_loop(self, index) ==
    IF index < 0 THEN [self |-> self, ret |-> FALSE, panic |-> FALSE]
    ELSE
      LET length == Len(self.positions)
          cur_position == self.positions[index + 1]
      IN IF cur_position >= Len(self.elements) - 1
         THEN Combinations_move_to_next_position_loop(self, index - 1)
         ELSE
           LET right == self.positions[index + 2]
               underflow == index # length - 1 /\ right = 0
               \* `positions[index + 1] - 1` wraps to usize::MAX without overflow checks
               right_minus_1 == IF right = 0 THEN USIZE_MAX ELSE right - 1
           IN IF underflow /\ OverflowChecks
              THEN [self |-> self, ret |-> FALSE, panic |-> TRUE]
              ELSE IF index = length - 1 \/ cur_position < right_minus_1
              THEN [self |-> [self EXCEPT !.positions =
                                [i \in 1..length |->
                                   IF i - 1 < index THEN self.positions[i]
                                   ELSE cur_position + 1 + (i - 1 - index)]],
                    ret |-> TRUE, panic |-> FALSE]
              ELSE Combinations_move_to_next_position_loop(self, index - 1)

\* Faulty variant of the operator below: only the last position is tried,
\* the positions to its left are never visited.
Combinations_move_to_next_position_LastOnly(self) ==
    IF Len(self.elements) = 0 \/ Len(self.positions) = 0
    THEN [self |-> self, ret |-> FALSE, panic |-> FALSE]
    ELSE IF self.positions[Len(self.positions)] >= Len(self.elements) - 1
    THEN [self |-> self, ret |-> FALSE, panic |-> FALSE]
    ELSE Combinations_move_to_next_position_loop(self, Len(self.positions) - 1)

Combinations_move_to_next_position(self) ==
    IF Len(self.elements) = 0
    THEN [self |-> self, ret |-> FALSE, panic |-> FALSE]
    ELSE Combinations_move_to_next_position_loop(self, Len(self.positions) - 1)

\* Faulty variant of the operator below: the length comparison is flipped
\* (`positions.len() < elements.len()`).
Combinations_get_current_combination_FlippedLength(self) ==
    IF self.done \/ Len(self.positions) < Len(self.elements)
    THEN [ret |-> None, panic |-> FALSE]
    ELSE IF \E i \in DOMAIN self.positions : self.positions[i] >= Len(self.elements)
    THEN [ret |-> None, panic |-> TRUE]
    ELSE [ret |-> Some([i \in DOMAIN self.positions |->
                          self.elements[self.positions[i] + 1]]),
          panic |-> FALSE]

\* returns [ret, panic]; `elements.get(*p).unwrap()` panics when p is out of range
Combinations_get_current_combination(self) ==
    IF self.done \/ Len(self.positions) > Len(self.elements)
    THEN [ret |-> None, panic |-> FALSE]
    ELSE IF \E i \in DOMAIN self.positions : self.positions[i] >= Len(self.elements)
    THEN [ret |-> None, panic |-> TRUE]
    ELSE [ret |-> Some([i \in DOMAIN self.positions |->
                          self.elements[self.positions[i] + 1]]),
          panic |-> FALSE]

\* Faulty variant of the operator below: `self.done = true` is missing.
Combinations_next_NeverDone(self) ==
    IF self.done THEN [self |-> self, ret |-> None, panic |-> FALSE]
    ELSE
      LET combo == Combinations_get_current_combination(self)
          moved == Combinations_move_to_next_position(self)
          grown == Combinations_move_to_next_set_size(moved.self)
      IN IF combo.panic \/ moved.panic
         THEN [self |-> self, ret |-> None, panic |-> TRUE]
         ELSE IF moved.ret
         THEN [self |-> moved.self, ret |-> combo.ret, panic |-> FALSE]
         ELSE IF self.all_sizes = FALSE \/ grown.ret = FALSE
         THEN [self |-> moved.self, ret |-> combo.ret, panic |-> FALSE]
         ELSE [self |-> grown.self, ret |-> combo.ret, panic |-> FALSE]

\* returns [self, ret, panic]
Combinations_next(self) ==
    IF self.done THEN [self |-> self, ret |-> None, panic |-> FALSE]
    ELSE
      LET combo == Combinations_get_current_combination(self)
          moved == Combinations_move_to_next_position(self)
          grown == Combinations_move_to_next_set_size(moved.self)
      IN IF combo.panic \/ moved.panic
         THEN [self |-> self, ret |-> None, panic |-> TRUE]
         ELSE IF moved.ret
         THEN [self |-> moved.self, ret |-> combo.ret, panic |-> FALSE]
         ELSE IF self.all_sizes = FALSE \/ grown.ret = FALSE
         THEN [self |-> [moved.self EXCEPT !.done = TRUE],
               ret |-> combo.ret, panic |-> FALSE]
         ELSE [self |-> grown.self, ret |-> combo.ret, panic |-> FALSE]

----------------------------------------------------------------------------
\* CombinationsWithReplacement

\* Faulty variant of the operator below: the struct starts in fixed-size
\* mode.
CombinationsWithReplacement_all_FixedSize(elems) ==
    [elements |-> iterable_to_sorted_set(elems),
     positions |-> <<>>,
     all_sizes |-> FALSE,
     done |-> FALSE]

CombinationsWithReplacement_all(elems) ==
    [elements |-> iterable_to_sorted_set(elems),
     positions |-> <<>>,
     all_sizes |-> TRUE,
     done |-> FALSE]

\* Faulty variant of the operator below: the positions start in descending
\* order.
CombinationsWithReplacement_of_size_Descending(elems, sz) ==
    [elements |-> iterable_to_sorted_set(elems),
     positions |-> [i \in 1..sz |-> sz - i],
     all_sizes |-> FALSE,
     done |-> FALSE]

CombinationsWithReplacement_of_size(elems, sz) ==
    [elements |-> iterable_to_sorted_set(elems),
     positions |-> [i \in 1..sz |-> 0],
     all_sizes |-> FALSE,
     done |-> FALSE]

\* Faulty variant of the operator below: pushes the new position without
\* resetting the existing ones to 0.
CombinationsWithReplacement_move_to_next_set_size_NoReset(self) ==
    IF Len(self.positions) >= Len(self.elements)
    THEN [self |-> self, ret |-> FALSE]
    ELSE [self |-> [self EXCEPT !.positions = Append(self.positions, 0)],
          ret |-> TRUE]

\* returns [self, ret]
CombinationsWithReplacement_move_to_next_set_size(self) ==
    IF Len(self.positions) >= Len(self.elements)
    THEN [self |-> self, ret |-> FALSE]
    ELSE [self |-> [self EXCEPT !.positions =
                      Append([i \in 1..Len(self.positions) |-> 0], 0)],
          ret |-> TRUE]

\* Faulty variant of the loop below: the positions to the right are reset to
\* 0, as an odometer does.
RECURSIVE CombinationsWithReplacement_move_to_next_position_loop_Odometer(_, _)
CombinationsWithReplacement_move_to_next_position_loop_Odometer(self, index) ==
    IF index < 0 THEN [self |-> self, ret |-> FALSE]
    ELSE
      LET length == Len(self.positions)
          cur_position == self.positions[index + 1]
      IN IF cur_position >= Len(self.elements) - 1
         THEN CombinationsWithReplacement_move_to_next_position_loop_Odometer(
                  self, index - 1)
         ELSE [self |-> [self EXCEPT !.positions =
                           [i \in 1..length |->
                              IF i - 1 < index THEN self.positions[i]
                              ELSE IF i - 1 = index THEN cur_position + 1
                              ELSE 0]],
               ret |-> TRUE]

\* Faulty variant of the loop below: the positions to the right are reset to
\* consecutive increasing values, the rule of Combinations.
RECURSIVE CombinationsWithReplacement_move_to_next_position_loop_Offsets(_, _)
CombinationsWithReplacement_move_to_next_position_loop_Offsets(self, index) ==
    IF index < 0 THEN [self |-> self, ret |-> FALSE]
    ELSE
      LET length == Len(self.positions)
          cur_position == self.positions[index + 1]
      IN IF cur_position >= Len(self.elements) - 1
         THEN CombinationsWithReplacement_move_to_next_position_loop_Offsets(
                  self, index - 1)
         ELSE [self |-> [self EXCEPT !.positions =
                           [i \in 1..length |->
                              IF i - 1 < index THEN self.positions[i]
                              ELSE cur_position + 1 + (i - 1 - index)]],
               ret |-> TRUE]

\* the body of `for index in (0..self.positions.len()).rev()`, from `index` down
\* returns [self, ret]
RECURSIVE CombinationsWithReplacement_move_to_next_position_loop(_, _)
CombinationsWithReplacement_move_to_next_position_loop(self, index) ==
    IF index < 0 THEN [self |-> self, ret |-> FALSE]
    ELSE
      LET length == Len(self.positions)
          cur_position == self.positions[index + 1]
      IN IF cur_position >= Len(self.elements) - 1
         THEN CombinationsWithReplacement_move_to_next_position_loop(self, index - 1)
         ELSE [self |-> [self EXCEPT !.positions =
                           [i \in 1..length |->
                              IF i - 1 < index THEN self.positions[i]
                              ELSE cur_position + 1]],
               ret |-> TRUE]

\* Faulty variant of the operator below: only the last position is tried,
\* the positions to its left are never visited.
CombinationsWithReplacement_move_to_next_position_LastOnly(self) ==
    IF Len(self.elements) = 0 \/ Len(self.positions) = 0
    THEN [self |-> self, ret |-> FALSE]
    ELSE IF self.positions[Len(self.positions)] >= Len(self.elements) - 1
    THEN [self |-> self, ret |-> FALSE]
    ELSE CombinationsWithReplacement_move_to_next_position_loop(
             self, Len(self.positions) - 1)

CombinationsWithReplacement_move_to_next_position(self) ==
    IF Len(self.elements) = 0
    THEN [self |-> self, ret |-> FALSE]
    ELSE CombinationsWithReplacement_move_to_next_position_loop(
             self, Len(self.positions) - 1)

\* Faulty variant of the operator below: the test that the position vector is
\* no longer than the domain is missing.
CombinationsWithReplacement_get_current_combination_NoLengthCheck(self) ==
    IF self.done
    THEN [ret |-> None, panic |-> FALSE]
    ELSE IF \E i \in DOMAIN self.positions : self.positions[i] >= Len(self.elements)
    THEN [ret |-> None, panic |-> TRUE]
    ELSE [ret |-> Some([i \in DOMAIN self.positions |->
                          self.elements[self.positions[i] + 1]]),
          panic |-> FALSE]

\* returns [ret, panic]; `elements.get(*p).unwrap()` panics when p is out of range
CombinationsWithReplacement_get_current_combination(self) ==
    IF self.done \/ Len(self.positions) > Len(self.elements)
    THEN [ret |-> None, panic |-> FALSE]
    ELSE IF \E i \in DOMAIN self.positions : self.positions[i] >= Len(self.elements)
    THEN [ret |-> None, panic |-> TRUE]
    ELSE [ret |-> Some([i \in DOMAIN self.positions |->
                          self.elements[self.positions[i] + 1]]),
          panic |-> FALSE]

\* returns [self, ret, panic]
CombinationsWithReplacement_next(self) ==
    IF self.done THEN [self |-> self, ret |-> None, panic |-> FALSE]
    ELSE
      LET combo == CombinationsWithReplacement_get_current_combination(self)
          moved == CombinationsWithReplacement_move_to_next_position(self)
          grown == CombinationsWithReplacement_move_to_next_set_size(moved.self)
      IN IF combo.panic
         THEN [self |-> self, ret |-> None, panic |-> TRUE]
         ELSE IF moved.ret
         THEN [self |-> moved.self, ret |-> combo.ret, panic |-> FALSE]
         ELSE IF self.all_sizes = FALSE \/ grown.ret = FALSE
         THEN [self |-> [moved.self EXCEPT !.done = TRUE],
               ret |-> combo.ret, panic |-> FALSE]
         ELSE [self |-> grown.self, ret |-> combo.ret, panic |-> FALSE]

----------------------------------------------------------------------------
\* AvailableList.  A list value is [entries, panic, ops]: `entries` is the
\* Vec<Entry> as a function on 0..len-1, `panic` records that an operation on
\* it panicked, and `ops` is a history of the remove and add calls made on it:
\* [op, index, links], links being the entries a remove left behind or the
\* entries an add found.

\* `self.entries[p].next = v`; indexing panics when p is out of bounds
AvailableList_set_next(l, p, v) ==
    IF l.panic THEN l
    ELSE IF p \notin DOMAIN l.entries THEN [l EXCEPT !.panic = TRUE]
    ELSE [l EXCEPT !.entries[p].next = v]

\* `self.entries[n].prev = v`
AvailableList_set_prev(l, n, v) ==
    IF l.panic THEN l
    ELSE IF n \notin DOMAIN l.entries THEN [l EXCEPT !.panic = TRUE]
    ELSE [l EXCEPT !.entries[n].prev = v]

\* `num_elements - 1` overflows for num_elements = 0: a panic with overflow
\* checks, usize::MAX without
AvailableList_new(num_elements) ==
    LET last == IF num_elements = 0 THEN 1 ELSE num_elements
        last_prev == IF num_elements = 0 THEN USIZE_MAX ELSE num_elements - 1
    IN [entries |->
          [i \in 0..last |->
             IF i = 0 THEN [prev |-> None, next |-> Some(1)]
             ELSE IF i < num_elements THEN [prev |-> Some(i - 1), next |-> Some(i + 1)]
             ELSE [prev |-> Some(last_prev), next |-> None]],
        panic |-> num_elements = 0 /\ OverflowChecks,
        ops |-> <<>>]

\* history only: the call op(i) ran to completion on list l
AvailableList_logged(l, op, i, links) ==
    IF l.panic THEN l
    ELSE [l EXCEPT !.ops = Append(@, [op |-> op, index |-> i, links |-> links])]

AvailableList_remove(l, i) ==
    IF l.panic THEN l
    ELSE IF DebugAssertions /\ ~(i > 0 /\ i \in DOMAIN l.entries)
    THEN [l EXCEPT !.panic = TRUE]
    ELSE IF i \notin DOMAIN l.entries THEN [l EXCEPT !.panic = TRUE]
    ELSE
      LET prev == l.entries[i].prev
          next == l.entries[i].next
          l1 == IF IsSome(prev) THEN AvailableList_set_next(l, Unwrap(prev), next) ELSE l
          l2 == IF IsSome(next) THEN AvailableList_set_prev(l1, Unwrap(next), prev) ELSE l1
      IN AvailableList_logged(l2, "remove", i, l2.entries)

\* Faulty variant of the operator below: only the predecessor is linked back
\* to i.
AvailableList_add_PrevOnly(l, i) ==
    IF l.panic THEN l
    ELSE IF DebugAssertions /\ ~(i > 0 /\ i \in DOMAIN l.entries)
    THEN [l EXCEPT !.panic = TRUE]
    ELSE IF i \notin DOMAIN l.entries THEN [l EXCEPT !.panic = TRUE]
    ELSE
      LET prev == l.entries[i].prev
          l1 == IF IsSome(prev) THEN AvailableList_set_next(l, Unwrap(prev), Some(i)) ELSE l
      IN AvailableList_logged(l1, "add", i, l.entries)

AvailableList_add(l, i) ==
    IF l.panic THEN l
    ELSE IF DebugAssertions /\ ~(i > 0 /\ i \in DOMAIN l.entries)
    THEN [l EXCEPT !.panic = TRUE]
    ELSE IF i \notin DOMAIN l.entries THEN [l EXCEPT !.panic = TRUE]
    ELSE
      LET prev == l.entries[i].prev
          l1 == IF IsSome(prev) THEN AvailableList_set_next(l, Unwrap(prev), Some(i)) ELSE l
          \* read after the first write, as the source does
          next == IF l1.panic THEN None ELSE l1.entries[i].next
          l2 == IF IsSome(next) THEN AvailableList_set_prev(l1, Unwrap(next), Some(i)) ELSE l1
      IN AvailableList_logged(l2, "add", i, l.entries)

\* returns [list, ret]
AvailableList_remove_first(l) ==
    IF l.panic THEN [list |-> l, ret |-> None]
    ELSE LET first == l.entries[0].next
         IN IF IsNone(first) THEN [list |-> l, ret |-> None]
            ELSE [list |-> AvailableList_remove(l, Unwrap(first)), ret |-> first]

\* Faulty variant of the operator below: the successor is returned but stays
\* in the list.
AvailableList_swap_for_next_NoRemove(l, i) ==
    IF l.panic THEN [list |-> l, ret |-> None]
    ELSE IF DebugAssertions /\ ~(i > 0 /\ i \in DOMAIN l.entries)
    THEN [list |-> [l EXCEPT !.panic = TRUE], ret |-> None]
    ELSE IF i \notin DOMAIN l.entries
    THEN [list |-> [l EXCEPT !.panic = TRUE], ret |-> None]
    ELSE [list |-> AvailableList_add(l, i), ret |-> l.entries[i].next]

\* returns [list, ret]
AvailableList_swap_for_next(l, i) ==
    IF l.panic THEN [list |-> l, ret |-> None]
    ELSE IF DebugAssertions /\ ~(i > 0 /\ i \in DOMAIN l.entries)
    THEN [list |-> [l EXCEPT !.panic = TRUE], ret |-> None]
    ELSE IF i \notin DOMAIN l.entries
    THEN [list |-> [l EXCEPT !.panic = TRUE], ret |-> None]
    ELSE
      LET next == l.entries[i].next
          added == AvailableList_add(l, i)
      IN IF IsNone(next) THEN [list |-> added, ret |-> None]
         ELSE [list |-> AvailableList_remove(added, Unwrap(next)), ret |-> next]

----------------------------------------------------------------------------
\* Permutations.  self.avail_list holds the entries function and self.list_ops
\* the history of the list.

\* self.avail_list as a list value
Permutations_avail_list(self) ==
    [entries |-> self.avail_list, panic |-> FALSE, ops |-> self.list_ops]

\* the body of `for _ in self.stack.len()..self.perm_length`, n iterations left
\* returns [self, ret, panic]
RECURSIVE Permutations_fill_remaining_perm_loop(_, _)
Permutations_fill_remaining_perm_loop(self, n) ==
    IF n <= 0 THEN [self |-> self, ret |-> TRUE, panic |-> FALSE]
    ELSE
      LET rf == AvailableList_remove_first(Permutations_avail_list(self))
      IN IF rf.list.panic \/ IsNone(rf.ret)
         THEN [self |-> self, ret |-> FALSE, panic |-> TRUE]
         ELSE Permutations_fill_remaining_perm_loop(
                  [self EXCEPT !.avail_list = rf.list.entries,
                               !.list_ops = rf.list.ops,
                               !.stack = Append(self.stack, Unwrap(rf.ret))],
                  n - 1)

\* history only: the fields of self that fill_remaining_perm reads and writes
Permutations_fields(self) ==
    [stack |-> self.stack, avail_list |-> self.avail_list,
     perm_length |-> self.perm_length, done |-> self.done]

\* returns [self, ret, panic]; the call and its outcome are added to self.calls
Permutations_fill_remaining_perm(self) ==
    CHOOSE out \in
        {[r EXCEPT !.self.calls =
              Append(@, [op |-> "fill_remaining_perm",
                         before |-> Permutations_fields(self),
                         after |-> Permutations_fields(r.self),
                         ret |-> r.ret,
                         panic |-> r.panic])] :
           r \in {IF self.perm_length > Len(self.elements)
                  THEN [self |-> [self EXCEPT !.done = TRUE],
                        ret |-> FALSE, panic |-> FALSE]
                  ELSE Permutations_fill_remaining_perm_loop(
                           self, self.perm_length - Len(self.stack))}} : TRUE

\* returns [self, panic]
Permutations_from_vec_with_size_constraints(elems, perm_len, all) ==
    LET avail == AvailableList_new(Len(elems))
        perms == [elements |-> elems,
                  avail_list |-> avail.entries,
                  list_ops |-> avail.ops,
                  calls |-> <<>>,
                  stack |-> <<>>,
                  perm_length |-> perm_len,
                  all_sizes |-> all,
                  done |-> FALSE]
        filled == Permutations_fill_remaining_perm(perms)
    IN IF avail.panic THEN [self |-> perms, panic |-> TRUE]
       ELSE [self |-> filled.self, panic |-> filled.panic]

Permutations_new(elems) ==
    Permutations_from_vec_with_size_constraints(elems, Len(elems), FALSE)

Permutations_of_length(elems, perm_len) ==
    Permutations_from_vec_with_size_constraints(elems, perm_len, FALSE)

\* Faulty variant of the operator below: the target length starts at 1.
Permutations_all_FromOne(elems) ==
    Permutations_from_vec_with_size_constraints(elems, 1, TRUE)

Permutations_all(elems) ==
    Permutations_from_vec_with_size_constraints(elems, 0, TRUE)

\* pass number `pass` of `loop { ... }` in next(); exit is "break",
\* "return_none" or "panic"; the pass is added to self.calls
\* returns [self, exit]
RECURSIVE Permutations_next_loop(_, _)
Permutations_next_loop(entered, pass) ==
  LET self == [entered EXCEPT !.calls =
                  Append(@, [op |-> "loop", pass |-> pass, stack |-> entered.stack])]
  IN
    IF Len(self.stack) = 0
    THEN
      IF ~self.all_sizes
      THEN [self |-> [self EXCEPT !.done = TRUE], exit |-> "return_none"]
      ELSE
        LET filled == Permutations_fill_remaining_perm(
                          [self EXCEPT !.perm_length = self.perm_length + 1])
        IN IF filled.panic THEN [self |-> filled.self, exit |-> "panic"]
           ELSE IF ~filled.ret
           THEN [self |-> filled.self,
                 exit |-> IF DebugAssertions /\ ~filled.self.done
                          THEN "panic" ELSE "return_none"]
           ELSE [self |-> filled.self, exit |-> "break"]
    ELSE
      LET curr_last == self.stack[Len(self.stack)]
          popped == [self EXCEPT !.stack = SubSeq(self.stack, 1, Len(self.stack) - 1)]
          swapped == AvailableList_swap_for_next(
                         Permutations_avail_list(self), curr_last)
          relinked == [popped EXCEPT !.avail_list = swapped.list.entries,
                                     !.list_ops = swapped.list.ops]
          filled == Permutations_fill_remaining_perm(relinked)
          readded == AvailableList_add(
                         Permutations_avail_list(filled.self),
                         Unwrap(swapped.ret))
      IN IF swapped.list.panic THEN [self |-> relinked, exit |-> "panic"]
         ELSE IF IsNone(swapped.ret) THEN Permutations_next_loop(relinked, pass + 1)
         ELSE IF filled.panic THEN [self |-> filled.self, exit |-> "panic"]
         ELSE IF ~filled.ret
         THEN IF readded.panic THEN [self |-> filled.self, exit |-> "panic"]
              ELSE Permutations_next_loop(
                       [filled.self EXCEPT !.avail_list = readded.entries,
                                           !.list_ops = readded.ops],
                       pass + 1)
         ELSE [self |-> [filled.self EXCEPT
                           !.stack = Append(filled.self.stack, Unwrap(swapped.ret))],
               exit |-> "break"]

\* Faulty variant of the operator below: a call on a finished generator still
\* increases the target length.
Permutations_next_CountsWhenDone(self) ==
    IF self.done
    THEN [self |-> [self EXCEPT !.perm_length = self.perm_length + 1],
          ret |-> None, panic |-> FALSE]
    ELSE LET looped == Permutations_next_loop(self, 1)
         IN [self |-> looped.self,
             ret |-> IF looped.exit = "break"
                     THEN Some([j \in DOMAIN self.stack |-> self.elements[self.stack[j]]])
                     ELSE None,
             panic |-> looped.exit = "panic"]

\* returns [self, ret, panic]
\* `self.elements[i - 1]` panics when i = 0 (overflow, or index usize::MAX) and
\* when i - 1 is out of bounds
Permutations_next(self) ==
    IF self.done THEN [self |-> self, ret |-> None, panic |-> FALSE]
    ELSE IF \E j \in DOMAIN self.stack :
              self.stack[j] < 1 \/ self.stack[j] > Len(self.elements)
    THEN [self |-> self, ret |-> None, panic |-> TRUE]
    ELSE
      LET perm == [j \in DOMAIN self.stack |-> self.elements[self.stack[j]]]
          looped == Permutations_next_loop(self, 1)
      IN IF looped.exit = "panic"
         THEN [self |-> looped.self, ret |-> None, panic |-> TRUE]
         ELSE IF looped.exit = "return_none"
         THEN [self |-> looped.self, ret |-> None, panic |-> FALSE]
         ELSE [self |-> looped.self, ret |-> Some(perm), panic |-> FALSE]

----------------------------------------------------------------------------
\* The state machine

Init ==
    /\ profile \in Profiles
    /\ input \in Inputs
    /\ kind = "none"
    /\ ctor = "none"
    /\ size = 0
    /\ elements = <<>>
    /\ positions = <<>>
    /\ all_sizes = FALSE
    /\ done = FALSE
    /\ entries = <<>>
    /\ stack = <<>>
    /\ perm_length = 0
    /\ panicked = FALSE
    /\ returned = <<>>
    /\ captured = <<>>
    /\ list_ops = <<>>
    /\ calls = <<>>

\* the struct a combination constructor returns becomes the instance
InstallCombination(k, c, sz, self) ==
    /\ kind' = k
    /\ ctor' = c
    /\ size' = sz
    /\ elements' = self.elements
    /\ positions' = self.positions
    /\ all_sizes' = self.all_sizes
    /\ done' = self.done
    /\ UNCHANGED <<profile, input, entries, stack, perm_length, panicked,
                   returned, captured, list_ops, calls>>

\* the struct a Permutations constructor returns becomes the instance, unless
\* the constructor panicked
InstallPermutations(c, sz, r) ==
    /\ kind' = "Permutations"
    /\ ctor' = c
    /\ size' = sz
    /\ panicked' = r.panic
    /\ calls' = r.self.calls
    /\ IF r.panic
       THEN UNCHANGED <<elements, entries, stack, perm_length, all_sizes, done,
                        list_ops>>
       ELSE /\ elements' = r.self.elements
            /\ entries' = r.self.avail_list
            /\ list_ops' = r.self.list_ops
            /\ stack' = r.self.stack
            /\ perm_length' = r.self.perm_length
            /\ all_sizes' = r.self.all_sizes
            /\ done' = r.self.done
    /\ UNCHANGED <<profile, input, positions, returned, captured>>

CallCombinationsAll ==
    /\ kind = "none"
    /\ InstallCombination("Combinations", "all", 0, Combinations_all(input))

CallCombinationsOfSize ==
    /\ kind = "none"
    /\ \E sz \in 0..MaxSize :
         InstallCombination("Combinations", "of_size", sz,
                            Combinations_of_size(input, sz))

CallCombinationsWithReplacementAll ==
    /\ kind = "none"
    /\ InstallCombination("CombinationsWithReplacement", "all", 0,
                          CombinationsWithReplacement_all(input))

CallCombinationsWithReplacementOfSize ==
    /\ kind = "none"
    /\ \E sz \in 0..MaxSize :
         InstallCombination("CombinationsWithReplacement", "of_size", sz,
                            CombinationsWithReplacement_of_size(input, sz))

CallPermutationsNew ==
    /\ kind = "none"
    /\ \E r \in {Permutations_new(input)} :
         InstallPermutations("new", Len(input), r)

CallPermutationsOfLength ==
    /\ kind = "none"
    /\ \E len \in 0..MaxSize :
         \E r \in {Permutations_of_length(input, len)} :
           InstallPermutations("of_length", len, r)

CallPermutationsAll ==
    /\ kind = "none"
    /\ \E r \in {Permutations_all(input)} :
         InstallPermutations("all", 0, r)

CombinationSelf ==
    [elements |-> elements, positions |-> positions,
     all_sizes |-> all_sizes, done |-> done]

PermutationsSelf ==
    [elements |-> elements, avail_list |-> entries, list_ops |-> list_ops,
     calls |-> calls,
     stack |-> stack, perm_length |-> perm_length, all_sizes |-> all_sizes,
     done |-> done]

\* what a next() call on a combination struct leaves behind
StepCombination(r) ==
    /\ panicked' = r.panic
    /\ IF r.panic
       THEN UNCHANGED <<positions, done, returned, captured>>
       ELSE /\ positions' = r.self.positions
            /\ done' = r.self.done
            /\ returned' = Append(returned, r.ret)
            /\ captured' = Append(captured, positions)
    /\ elements' = r.self.elements
    /\ all_sizes' = r.self.all_sizes
    /\ UNCHANGED <<profile, input, kind, ctor, size, entries, stack, perm_length,
                   list_ops, calls>>

CallCombinationsNext ==
    /\ kind = "Combinations"
    /\ ~panicked
    /\ Len(returned) < MaxCalls
    /\ \E r \in {Combinations_next(CombinationSelf)} : StepCombination(r)

CallCombinationsWithReplacementNext ==
    /\ kind = "CombinationsWithReplacement"
    /\ ~panicked
    /\ Len(returned) < MaxCalls
    /\ \E r \in {CombinationsWithReplacement_next(CombinationSelf)} :
         StepCombination(r)

CallPermutationsNext ==
    /\ kind = "Permutations"
    /\ ~panicked
    /\ Len(returned) < MaxCalls
    /\ \E r \in {Permutations_next(PermutationsSelf)} :
          /\ panicked' = r.panic
          /\ calls' = r.self.calls
          /\ IF r.panic
             THEN UNCHANGED <<entries, stack, perm_length, done, returned,
                              captured, list_ops>>
             ELSE /\ entries' = r.self.avail_list
                  /\ list_ops' = r.self.list_ops
                  /\ stack' = r.self.stack
                  /\ perm_length' = r.self.perm_length
                  /\ done' = r.self.done
                  /\ returned' = Append(returned, r.ret)
                  /\ captured' = Append(captured, stack)
          /\ elements' = r.self.elements
          /\ all_sizes' = r.self.all_sizes
    /\ UNCHANGED <<profile, input, kind, ctor, size, positions>>

Next ==
    \/ CallCombinationsAll
    \/ CallCombinationsOfSize
    \/ CallCombinationsWithReplacementAll
    \/ CallCombinationsWithReplacementOfSize
    \/ CallPermutationsNew
    \/ CallPermutationsOfLength
    \/ CallPermutationsAll
    \/ CallCombinationsNext
    \/ CallCombinationsWithReplacementNext
    \/ CallPermutationsNext

Spec == Init /\ [][Next]_vars

----------------------------------------------------------------------------
\* Vocabulary of the properties

\* N of a combination generator: the number of distinct input values
DistinctCount == Cardinality({input[i] : i \in DOMAIN input})

\* N of a Permutations generator: the number of input positions
PositionCount == Len(input)

RECURSIVE Binomial(_, _)
Binomial(n, k) ==
    IF k = 0 THEN 1
    ELSE IF n <= 0 THEN 0
    ELSE Binomial(n - 1, k - 1) + Binomial(n - 1, k)

\* n! / (n-k)!, the number of k-permutations of n positions (0 when k > n)
RECURSIVE FallingFactorial(_, _)
FallingFactorial(n, k) ==
    IF k = 0 THEN 1
    ELSE IF n <= 0 THEN 0
    ELSE n * FallingFactorial(n - 1, k - 1)

\* the number of permutations of n positions of every length 0..k
RECURSIVE PartialPermutationCount(_, _)
PartialPermutationCount(n, k) ==
    IF k < 0 THEN 0
    ELSE FallingFactorial(n, k) + PartialPermutationCount(n, k - 1)

\* C(n+k-1, k) summed over the sizes 0..k: the multisets of size at most k
RECURSIVE MultisetCountUpTo(_, _)
MultisetCountUpTo(n, k) ==
    IF k < 0 THEN 0
    ELSE Binomial(n + k - 1, k) + MultisetCountUpTo(n, k - 1)

RECURSIVE PowerOfTwo(_)
PowerOfTwo(n) == IF n <= 0 THEN 1 ELSE 2 * PowerOfTwo(n - 1)

\* some call has returned None
HasReturnedNone == \E i \in DOMAIN returned : IsNone(returned[i])

\* the calls that returned Some before the first None
LeadingResults == {i \in DOMAIN returned : \A j \in 1..i : IsSome(returned[j])}

\* lexicographic order on integer sequences (a proper prefix is smaller)
LexLess(a, b) ==
    \/ /\ Len(a) < Len(b)
       /\ \A i \in 1..Len(a) : a[i] = b[i]
    \/ \E k \in 1..Len(a) :
         /\ k <= Len(b)
         /\ a[k] < b[k]
         /\ \A i \in 1..(k - 1) : a[i] = b[i]

\* shorter first, lexicographic within one length
SizeLexLess(a, b) ==
    \/ Len(a) < Len(b)
    \/ Len(a) = Len(b) /\ LexLess(a, b)

StrictlyIncreasing(a) == \A i \in 1..(Len(a) - 1) : a[i] < a[i + 1]

NonDecreasing(a) == \A i \in 1..(Len(a) - 1) : a[i] <= a[i + 1]

\* every member of a is a value of the input
FromInput(a) == \A j \in DOMAIN a : \E m \in DOMAIN input : input[m] = a[j]

\* the calls that returned Some
SomeResults == {i \in DOMAIN returned : IsSome(returned[i])}

Injective(a) == \A i, j \in DOMAIN a : i # j => a[i] # a[j]

----------------------------------------------------------------------------
\* C1: Combinations::of_size over N distinct elements returns exactly C(N,k)
\* Some results before the first None when k <= N, and none (the very first
\* call returns None) when k > N.
C1_CombinationsOfSizeCount ==
    (kind = "Combinations" /\ ctor = "of_size") =>
        LET expected == IF size <= DistinctCount
                        THEN Binomial(DistinctCount, size) ELSE 0
        IN /\ ~panicked
           /\ Cardinality(LeadingResults) <= expected
           /\ HasReturnedNone => Cardinality(LeadingResults) = expected

C1_Witness ==
    /\ kind = "Combinations" /\ ctor = "of_size"
    /\ DistinctCount = 3 /\ size = 2
    /\ HasReturnedNone
    /\ Cardinality(LeadingResults) = 3

\* C2: Permutations::of_length over N positions returns exactly N!/(N-k)!
\* results before the first None when k <= N and zero when k > N;
\* Permutations::new returns exactly N! results.
C2_PermutationsCount ==
    (kind = "Permutations" /\ ctor \in {"new", "of_length"}) =>
        LET expected == IF size <= PositionCount
                        THEN FallingFactorial(PositionCount, size) ELSE 0
        IN /\ Cardinality(LeadingResults) <= expected
           /\ HasReturnedNone => Cardinality(LeadingResults) = expected

\* C3: Permutations::new / of_length with k <= N return their results in
\* strictly increasing lexicographic order of position sequences, starting
\* with the first k positions, without repeats; new([x,y,z]) returns the six
\* permutations in order and then None.
C3_PermutationsLexOrder ==
    (kind = "Permutations" /\ ctor \in {"new", "of_length"} /\ size <= PositionCount) =>
        /\ \A i \in LeadingResults :
             /\ i = 1 => captured[i] = [j \in 1..size |-> j]
             /\ i > 1 => LexLess(captured[i - 1], captured[i])
             /\ Len(captured[i]) = size
        /\ (ctor = "new" /\ input = <<1, 2, 3>>) =>
             /\ ~panicked
             /\ LET example == << Some(<<1, 2, 3>>), Some(<<1, 3, 2>>), Some(<<2, 1, 3>>),
                               Some(<<2, 3, 1>>), Some(<<3, 1, 2>>), Some(<<3, 2, 1>>) >>
                IN \A i \in DOMAIN returned :
                     IF i <= 6 THEN returned[i] = example[i] ELSE IsNone(returned[i])

\* C4: Combinations::all over N distinct elements returns exactly 2^N results
\* before the first None: every subset once, by increasing size and
\* lexicographically within a size, the empty combination first.
C4_CombinationsAllPowerSet ==
    (kind = "Combinations" /\ ctor = "all") =>
        /\ ~panicked
        /\ \A i \in LeadingResults :
             LET combo == Unwrap(returned[i])
             IN /\ StrictlyIncreasing(combo)
                /\ \A j \in DOMAIN combo : \E m \in DOMAIN input : input[m] = combo[j]
                /\ i = 1 => combo = <<>>
                /\ i > 1 => SizeLexLess(Unwrap(returned[i - 1]), combo)
        /\ Cardinality(LeadingResults) <= PowerOfTwo(DistinctCount)
        /\ HasReturnedNone => Cardinality(LeadingResults) = PowerOfTwo(DistinctCount)

C4_Witness ==
    /\ kind = "Combinations" /\ ctor = "all"
    /\ DistinctCount = 3
    /\ HasReturnedNone
    /\ Cardinality(LeadingResults) = 8
    /\ Len(Unwrap(returned[8])) = 3

\* C5 as stated: CombinationsWithReplacement::of_size returns exactly
\* C(N+k-1, k) results before the first None for every k >= 0, k > N included.
C5_AnySizeCount ==
    (kind = "CombinationsWithReplacement" /\ ctor = "of_size") =>
        LET expected == Binomial(DistinctCount + size - 1, size)
        IN HasReturnedNone => Cardinality(LeadingResults) = expected

\* C5 amended: CombinationsWithReplacement::of_size returns exactly
\* C(N+k-1, k) results before the first None when k <= N, and no result at
\* all when k > N.
C5_SizeWithinDomainCount ==
    (kind = "CombinationsWithReplacement" /\ ctor = "of_size") =>
        LET expected == IF size <= DistinctCount
                        THEN Binomial(DistinctCount + size - 1, size) ELSE 0
        IN /\ ~panicked
           /\ Cardinality(LeadingResults) <= expected
           /\ HasReturnedNone => Cardinality(LeadingResults) = expected

C5_Witness ==
    /\ kind = "CombinationsWithReplacement" /\ ctor = "of_size"
    /\ DistinctCount = 3 /\ size = 2
    /\ HasReturnedNone
    /\ Cardinality(LeadingResults) = 6

\* C6: for CombinationsWithReplacement::of_size with k > N the first call to
\* next() returns None.
C6_OversizeFirstCallNone ==
    (kind = "CombinationsWithReplacement" /\ ctor = "of_size"
        /\ size > DistinctCount /\ Len(returned) >= 1) =>
        IsNone(returned[1])

C6_Witness ==
    /\ kind = "CombinationsWithReplacement" /\ ctor = "of_size"
    /\ DistinctCount = 3 /\ size = 4
    /\ Len(returned) >= 1
    /\ IsNone(returned[1])

\* C7: for every generator and constructor, once next() has returned None
\* every later call returns None.
C7_NoneIsFinal ==
    \A i, j \in DOMAIN returned :
        (i < j /\ IsNone(returned[i])) => IsNone(returned[j])

C7_Witness ==
    /\ kind = "CombinationsWithReplacement" /\ ctor = "of_size"
    /\ DistinctCount = 2 /\ size = 3
    /\ ~done
    /\ Len(returned) = 3
    /\ \A i \in DOMAIN returned : IsNone(returned[i])

\* C8: no constructor call and no next() call of any generator panics.
C8_NoPanic == ~panicked

\* C9: Permutations::new over an empty input constructs without error and
\* returns Some([]) once, then None.
C9_EmptyInputOnePermutation ==
    (kind = "Permutations" /\ ctor = "new" /\ input = <<>>) =>
        /\ ~panicked
        /\ \A i \in DOMAIN returned :
             IF i = 1 THEN returned[i] = Some(<<>>) ELSE IsNone(returned[i])

\* C10: Permutations::all returns every permutation of every length 0..N
\* exactly once, shorter lengths first and lexicographically by position
\* within a length, then None.
C10_PermutationsAllOrder ==
    (kind = "Permutations" /\ ctor = "all") =>
        LET total == PartialPermutationCount(PositionCount, PositionCount)
        IN /\ \A i \in LeadingResults :
                /\ Injective(captured[i])
                /\ \A j \in DOMAIN captured[i] : captured[i][j] \in 1..PositionCount
                /\ i > 1 => SizeLexLess(captured[i - 1], captured[i])
           /\ Cardinality(LeadingResults) <= total
           /\ HasReturnedNone => Cardinality(LeadingResults) = total

\* C11: for Combinations::of_size with k <= N consecutive results are strictly
\* increasing in lexicographic order, each result is a strictly increasing
\* sequence of k domain elements, and no result repeats; of_size([a,b,c], 2)
\* returns [a,b], [a,c], [b,c], then None.
C11_CombinationsOfSizeOrder ==
    (kind = "Combinations" /\ ctor = "of_size" /\ size <= DistinctCount) =>
        /\ \A i \in SomeResults :
             LET combo == Unwrap(returned[i])
             IN /\ Len(combo) = size
                /\ StrictlyIncreasing(combo)
                /\ FromInput(combo)
                /\ (i - 1) \in SomeResults => LexLess(Unwrap(returned[i - 1]), combo)
                /\ \A j \in SomeResults : j # i => returned[j] # returned[i]
        /\ (input = <<1, 2, 3>> /\ size = 2) =>
             LET example == << Some(<<1, 2>>), Some(<<1, 3>>), Some(<<2, 3>>) >>
             IN \A i \in DOMAIN returned :
                  IF i <= 3 THEN returned[i] = example[i] ELSE IsNone(returned[i])

C11_Witness ==
    /\ kind = "Combinations" /\ ctor = "of_size"
    /\ input = <<3, 1, 2>> /\ size = 2
    /\ returned = << Some(<<1, 2>>), Some(<<1, 3>>), Some(<<2, 3>>), None >>

\* C12: for CombinationsWithReplacement::of_size consecutive results are
\* strictly increasing in lexicographic order, each result is a
\* non-decreasing sequence of k domain elements, and no result repeats;
\* of_size([a,b,c], 2) returns [a,a], [a,b], [a,c], [b,b], [b,c], [c,c], None.
C12_WithReplacementOfSizeOrder ==
    (kind = "CombinationsWithReplacement" /\ ctor = "of_size") =>
        /\ \A i \in SomeResults :
             LET combo == Unwrap(returned[i])
             IN /\ Len(combo) = size
                /\ NonDecreasing(combo)
                /\ FromInput(combo)
                /\ (i - 1) \in SomeResults => LexLess(Unwrap(returned[i - 1]), combo)
                /\ \A j \in SomeResults : j # i => returned[j] # returned[i]
        /\ (input = <<1, 2, 3>> /\ size = 2) =>
             LET example == << Some(<<1, 1>>), Some(<<1, 2>>), Some(<<1, 3>>),
                               Some(<<2, 2>>), Some(<<2, 3>>), Some(<<3, 3>>) >>
             IN \A i \in DOMAIN returned :
                  IF i <= 6 THEN returned[i] = example[i] ELSE IsNone(returned[i])

C12_Witness ==
    /\ kind = "CombinationsWithReplacement" /\ ctor = "of_size"
    /\ DistinctCount = 3 /\ size = 3
    /\ HasReturnedNone
    /\ Cardinality(SomeResults) = 10
    /\ returned[10] = Some(<<3, 3, 3>>)

\* C13: CombinationsWithReplacement::all over N distinct elements returns
\* results of every size 0..N and of no other size, by increasing size, and
\* within size s all C(N+s-1, s) multisets once in lexicographic order; then
\* None.
C13_WithReplacementAllSizes ==
    (kind = "CombinationsWithReplacement" /\ ctor = "all") =>
        LET total == MultisetCountUpTo(DistinctCount, DistinctCount)
            OfSize(s) == {i \in LeadingResults : Len(Unwrap(returned[i])) = s}
        IN /\ ~panicked
           /\ \A i \in LeadingResults :
                LET combo == Unwrap(returned[i])
                IN /\ Len(combo) <= DistinctCount
                   /\ NonDecreasing(combo)
                   /\ FromInput(combo)
                   /\ i = 1 => combo = <<>>
                   /\ i > 1 => SizeLexLess(Unwrap(returned[i - 1]), combo)
           /\ \A s \in 0..DistinctCount :
                Cardinality(OfSize(s)) <= Binomial(DistinctCount + s - 1, s)
           /\ Cardinality(LeadingResults) <= total
           /\ HasReturnedNone =>
                /\ Cardinality(LeadingResults) = total
                /\ \A s \in 0..DistinctCount :
                     Cardinality(OfSize(s)) = Binomial(DistinctCount + s - 1, s)

C13_Witness ==
    /\ kind = "CombinationsWithReplacement" /\ ctor = "all"
    /\ DistinctCount = 3
    /\ HasReturnedNone
    /\ Cardinality(LeadingResults) = 20
    /\ returned[20] = Some(<<3, 3, 3>>)

\* the generator that constructor c of kind k builds from elems
Construct(k, c, elems, sz) ==
    IF k = "Combinations"
    THEN IF c = "all" THEN Combinations_all(elems)
         ELSE Combinations_of_size(elems, sz)
    ELSE IF c = "all" THEN CombinationsWithReplacement_all(elems)
         ELSE CombinationsWithReplacement_of_size(elems, sz)

\* the results of n successive next() calls on a combination generator
RECURSIVE Replay(_, _, _)
Replay(k, self, n) ==
    IF n = 0 THEN <<>>
    ELSE LET r == IF k = "Combinations" THEN Combinations_next(self)
                  ELSE CombinationsWithReplacement_next(self)
         IN <<r.ret>> \o Replay(k, r.self, n - 1)

InputValues == {input[i] : i \in DOMAIN input}

\* C14: both combination generators store as their domain the strictly
\* increasing sequence of the distinct input values, so inputs with the same
\* set of values give identical result sequences, and normalising the stored
\* domain again changes nothing.
C14_DomainNormalised ==
    (kind \in {"Combinations", "CombinationsWithReplacement"}) =>
        /\ StrictlyIncreasing(elements)
        /\ {elements[i] : i \in DOMAIN elements} = InputValues
        /\ iterable_to_sorted_set(elements) = elements
        /\ iterable_to_sorted_set(iterable_to_sorted_set(input))
             = iterable_to_sorted_set(input)
        /\ returned = Replay(kind,
                             Construct(kind, ctor, SetToSortedSeq(InputValues), size),
                             Len(returned))

C14_Witness ==
    /\ kind = "CombinationsWithReplacement" /\ ctor = "all"
    /\ input = <<3, 1, 3>>
    /\ elements = <<1, 3>>
    /\ returned = << Some(<<>>), Some(<<1>>), Some(<<3>>), Some(<<1, 1>>),
                     Some(<<1, 3>>), Some(<<3, 3>>), None >>

\* C15: Permutations never sorts or deduplicates its input: the stored domain
\* is the input sequence, the first result of new(input) is the input in its
\* original order, and the N positions are permuted as distinguishable, so
\* new returns N! results (stated for a non-empty input).
C15_InputKeptVerbatim ==
    (kind = "Permutations" /\ ctor = "new" /\ PositionCount >= 1) =>
        /\ ~panicked
        /\ elements = input
        /\ Len(returned) >= 1 => returned[1] = Some(input)
        /\ HasReturnedNone =>
             Cardinality(LeadingResults)
               = FallingFactorial(PositionCount, PositionCount)

\* the permutation staged on the stack
StagedPermutation == [j \in DOMAIN stack |-> elements[stack[j]]]

\* a step that is a completed next() call on a non-terminal Permutations
NextOnNonTerminal ==
    /\ kind = "Permutations"
    /\ ~panicked
    /\ ~done
    /\ Len(returned') = Len(returned) + 1

\* C16: every next() on a non-terminal Permutations returns the permutation
\* that was staged on the stack when the call began, the call that exhausts
\* the current length included.
C16_ReturnsStagedPermutation ==
    [][NextOnNonTerminal =>
         returned'[Len(returned')] = Some(StagedPermutation)]_vars

\* the indices met walking the next links from `at`, at most fuel of them
RECURSIVE Walk(_, _, _)
Walk(e, at, fuel) ==
    IF IsNone(at) \/ fuel = 0 THEN {}
    ELSE IF Unwrap(at) \notin DOMAIN e THEN {Unwrap(at)}
    ELSE {Unwrap(at)} \cup Walk(e, e[Unwrap(at)].next, fuel - 1)

\* the indices reachable from the sentinel head of the available list
Available == Walk(entries, entries[0].next, Cardinality(DOMAIN entries) + 1)

OnStack == {stack[j] : j \in DOMAIN stack}

\* C17: between next() calls the indices reachable from the head of the
\* available list and the indices on the stack are disjoint, the stack holds
\* no index twice, and together they are exactly 1..N (stated for N >= 1).
C17_AvailableAndStackPartition ==
    (kind = "Permutations" /\ ~panicked /\ PositionCount >= 1) =>
        /\ Available \cap OnStack = {}
        /\ Injective(stack)
        /\ Available \cup OnStack = 1..PositionCount

\* C18: the stack is never longer than perm_length; after construction and
\* after every next() that leaves the generator non-terminal it is exactly
\* perm_length long, so every result of of_length(domain, k) has length k.
C18_StackLength ==
    (kind = "Permutations" /\ ~panicked) =>
        /\ Len(stack) <= perm_length
        /\ ~done => Len(stack) = perm_length
        /\ ctor = "of_length" =>
             \A i \in SomeResults : Len(Unwrap(returned[i])) = size

\* the indices larger than st[d] that are free once depths d.. are popped
LargerFree(st, d) ==
    {x \in 1..PositionCount :
        /\ x > st[d]
        /\ \A j \in 1..d : st[j] # x}

\* st extended with the smallest free indices in ascending order to length len
RECURSIVE FilledUp(_, _)
FilledUp(st, len) ==
    LET free == {x \in 1..PositionCount : \A j \in DOMAIN st : st[j] # x}
    IN IF Len(st) >= len \/ free = {} THEN st
       ELSE FilledUp(Append(st, CHOOSE x \in free : \A y \in free : x <= y), len)

\* the stack staged after st: the unpopped prefix, the next-larger index at
\* the deepest depth that has one, then the smallest free indices
StagedAfter(st, len) ==
    LET depths == {d \in DOMAIN st : LargerFree(st, d) # {}}
        d == CHOOSE x \in depths : \A y \in depths : y <= x
        n == CHOOSE x \in LargerFree(st, d) : \A y \in LargerFree(st, d) : x <= y
    IN FilledUp(Append(SubSeq(st, 1, d - 1), n), len)

\* a next() call begun on a well-formed state in which some popped entry has
\* a next-larger available index
NextWithLargerIndex ==
    /\ kind = "Permutations"
    /\ ~panicked
    /\ ~done
    /\ Injective(stack)
    /\ Len(stack) = perm_length
    /\ Available \cap OnStack = {}
    /\ Available \cup OnStack = 1..PositionCount
    /\ \E d \in DOMAIN stack : LargerFree(stack, d) # {}
    /\ returned' # returned \/ panicked'

\* C20: when swap_for_next returns a next-larger index n for the popped
\* entry, the newly staged stack is the unpopped prefix, then n at the depth
\* just vacated, then the smallest available indices in ascending order up
\* to the target length.
C20_PushBeforeFill ==
    [][NextWithLargerIndex =>
         /\ ~panicked'
         /\ stack' = StagedAfter(stack, perm_length)]_vars

\* the add calls and the remove calls in the history of the available list
AddCalls == {t \in DOMAIN list_ops : list_ops[t].op = "add"}
RemoveCalls == {t \in DOMAIN list_ops : list_ops[t].op = "remove"}

\* the latest removal of list_ops[t].index before call t (0 when there is none)
RemovalBefore(t) ==
    LET earlier == {r \in RemoveCalls : r < t /\ list_ops[r].index = list_ops[t].index}
    IN IF earlier = {} THEN 0
       ELSE CHOOSE r \in earlier : \A q \in earlier : q <= r

\* C19: indices are added back to the available list in exact reverse order
\* of their removal: when index i is re-added, every index removed after i
\* was removed has already been re-added, and the links are those that the
\* removal of i left behind.
C19_ReAddInReverseOrder ==
    (kind = "Permutations") =>
        \A t \in AddCalls :
            LET r == RemovalBefore(t)
            IN /\ r # 0
               /\ \A u \in RemoveCalls :
                    (r < u /\ u < t) =>
                        \E v \in AddCalls :
                            /\ u < v /\ v < t
                            /\ list_ops[v].index = list_ops[u].index
               /\ list_ops[t].links = list_ops[r].links

\* the indices met walking the next links of e from `at`, in order
RECURSIVE WalkSeq(_, _, _)
WalkSeq(e, at, fuel) ==
    IF IsNone(at) \/ fuel = 0 THEN <<>>
    ELSE IF Unwrap(at) \notin DOMAIN e THEN <<Unwrap(at)>>
    ELSE <<Unwrap(at)>> \o WalkSeq(e, e[Unwrap(at)].next, fuel - 1)

\* the available indices of the entries e, from the head on
AvailableSeq(e) == WalkSeq(e, e[0].next, Cardinality(DOMAIN e) + 1)

FillCalls == {t \in DOMAIN calls : calls[t].op = "fill_remaining_perm"}

\* C21: fill_remaining_perm with perm_length > N sets done and returns false
\* without changing the stack or the available list; otherwise it removes
\* the head of the available list and pushes it until the stack is
\* perm_length long, then returns true, the entries already on the stack
\* unchanged.
C21_FillRemainingPerm ==
    (kind = "Permutations") =>
        \A t \in FillCalls :
            LET before == calls[t].before
                after == calls[t].after
                missing == before.perm_length - Len(before.stack)
                heads == AvailableSeq(before.avail_list)
            IN /\ ~calls[t].panic
               /\ after.perm_length = before.perm_length
               /\ IF before.perm_length > PositionCount
                  THEN /\ calls[t].ret = FALSE
                       /\ after.done
                       /\ after.stack = before.stack
                       /\ after.avail_list = before.avail_list
                  ELSE /\ calls[t].ret = TRUE
                       /\ after.done = before.done
                       /\ Len(after.stack) = before.perm_length
                       /\ missing >= 0
                       /\ Len(heads) >= missing
                       /\ after.stack = before.stack \o SubSeq(heads, 1, missing)
                       /\ AvailableSeq(after.avail_list)
                            = SubSeq(heads, missing + 1, Len(heads))

\* the prev links of e are the exact inverse of its next links
InverseLinks(e) ==
    \A a \in DOMAIN e :
        /\ IsSome(e[a].next) =>
             /\ Unwrap(e[a].next) \in DOMAIN e
             /\ e[Unwrap(e[a].next)].prev = Some(a)
        /\ IsSome(e[a].prev) =>
             /\ Unwrap(e[a].prev) \in DOMAIN e
             /\ e[Unwrap(e[a].prev)].next = Some(a)

\* C24: AvailableList::new(N) builds, for every N >= 0, a list whose traversal
\* from the head visits exactly 1, 2, ..., N in ascending order and then ends
\* (for N = 0 the list is empty and remove_first returns None), with prev
\* links the exact inverse of next links.  The list that new(N) built is the
\* one the constructor's fill_remaining_perm call found.
C24_NewListTraversal ==
    (kind = "Permutations") =>
        /\ calls # <<>>
        /\ LET e == calls[1].before.avail_list
           IN /\ AvailableSeq(e) = [i \in 1..PositionCount |-> i]
              /\ InverseLinks(e)
              /\ PositionCount = 0 =>
                   IsNone(AvailableList_remove_first(
                              [entries |-> e, panic |-> FALSE, ops |-> <<>>]).ret)

\* the stacks of length len staged at the start of the calls in the history h
StagedOfLength(h, len) == {h[i] : i \in {j \in DOMAIN h : Len(h[j]) = len}}

\* every permutation of length len of the positions 1..N is in the set S
AllPermutationsIn(S, len) ==
    /\ \A st \in S : Injective(st) /\ \A j \in DOMAIN st : st[j] \in 1..PositionCount
    /\ Cardinality(S) = FallingFactorial(PositionCount, len)

\* C30: in all-sizes mode of Permutations perm_length starts at 0, is only
\* ever increased and only by one at a time, is increased only by a call that
\* has emptied the stack after every permutation of the current length was
\* staged, and the generator becomes terminal only when the increased length
\* exceeds N.
C30_AllSizesLengthGrowth ==
    [][/\ (kind = "none" /\ kind' = "Permutations" /\ ctor' = "all" /\ ~panicked')
          => perm_length' = 0
       /\ (kind = "Permutations" /\ ctor = "all") =>
            /\ perm_length' \in {perm_length, perm_length + 1}
            /\ perm_length' = perm_length + 1 =>
                 /\ Len(stack) = perm_length
                 /\ AllPermutationsIn(StagedOfLength(captured', perm_length),
                                      perm_length)
            /\ (done' /\ ~done) =>
                 /\ perm_length' = perm_length + 1
                 /\ perm_length' > PositionCount]_vars

C30_Witness ==
    /\ kind = "Permutations" /\ ctor = "all"
    /\ PositionCount = 1
    /\ perm_length = 2
    /\ done
    /\ Len(captured) = 2

----------------------------------------------------------------------------
\* AvailableList on its own: a list built by new(size) and the methods called
\* on it directly.  `calls` records each call: its argument, the entries
\* before and after, and what it returned.  The caller keeps to the doc
\* comments of add and swap_for_next: an entry is re-added only when it is the
\* one removed last among those still out of the list.

ListInit ==
    /\ profile \in Profiles
    /\ size \in 0..MaxLen
    /\ kind = "AvailableList"
    /\ ctor = "new"
    /\ \E l \in {AvailableList_new(size)} :
         /\ panicked = l.panic
         /\ entries = IF l.panic THEN <<>> ELSE l.entries
         /\ list_ops = l.ops
    /\ input = <<>>
    /\ elements = <<>>
    /\ positions = <<>>
    /\ all_sizes = FALSE
    /\ done = FALSE
    /\ stack = <<>>
    /\ perm_length = 0
    /\ returned = <<>>
    /\ captured = <<>>
    /\ calls = <<>>

\* &mut self of the list methods
AvailableListSelf == [entries |-> entries, panic |-> FALSE, ops |-> list_ops]

\* the indices 1..N that are reachable from the head: present in the list
Present == Available \cap (1..size)

\* the indices taken out of the list and not yet re-added, in removal order
RECURSIVE Outstanding(_)
Outstanding(ops) ==
    IF ops = <<>> THEN <<>>
    ELSE LET earlier == Outstanding(SubSeq(ops, 1, Len(ops) - 1))
             last == ops[Len(ops)]
         IN IF last.op = "remove" THEN Append(earlier, last.index)
            ELSE SelectSeq(earlier, LAMBDA x : x # last.index)

\* the index a caller may re-add: the one removed last
LastRemoved ==
    LET out == Outstanding(list_ops)
    IN IF out = <<>> THEN {} ELSE {out[Len(out)]}

\* what a call op(i) that left the list l and returned ret leaves behind
StepList(op, i, l, ret) ==
    /\ panicked' = l.panic
    /\ entries' = IF l.panic THEN entries ELSE l.entries
    /\ list_ops' = IF l.panic THEN list_ops ELSE l.ops
    /\ calls' = Append(calls, [op |-> op, arg |-> i, before |-> entries,
                               after |-> l.entries, ret |-> ret,
                               panic |-> l.panic])
    /\ UNCHANGED <<profile, input, kind, ctor, size, elements, positions,
                   all_sizes, done, stack, perm_length, returned, captured>>

CallListRemove ==
    /\ kind = "AvailableList"
    /\ ~panicked
    /\ Len(calls) < MaxListCalls
    /\ \E i \in Present :
         \E l \in {AvailableList_remove(AvailableListSelf, i)} :
           StepList("remove", i, l, None)

CallListAdd ==
    /\ kind = "AvailableList"
    /\ ~panicked
    /\ Len(calls) < MaxListCalls
    /\ \E i \in LastRemoved :
         \E l \in {AvailableList_add(AvailableListSelf, i)} :
           StepList("add", i, l, None)

CallListSwapForNext ==
    /\ kind = "AvailableList"
    /\ ~panicked
    /\ Len(calls) < MaxListCalls
    /\ \E i \in LastRemoved :
         \E r \in {AvailableList_swap_for_next(AvailableListSelf, i)} :
           StepList("swap_for_next", i, r.list, r.ret)

CallListRemoveFirst ==
    /\ kind = "AvailableList"
    /\ ~panicked
    /\ Len(calls) < MaxListCalls
    /\ \E r \in {AvailableList_remove_first(AvailableListSelf)} :
         StepList("remove_first", 0, r.list, r.ret)

ListNext ==
    \/ CallListRemove
    \/ CallListAdd
    \/ CallListSwapForNext
    \/ CallListRemoveFirst

ListSpec == ListInit /\ [][ListNext]_vars

\* the calls of the method op in the history of direct calls
CallsOf(op) == {t \in DOMAIN calls : calls[t].op = op}

\* C23: for any available index i, remove(i) links i's predecessor and
\* successor to each other and leaves i's own prev and next unchanged, and
\* add(i) performed immediately afterwards restores every entry of the list
\* to its value before the remove.
C23_RemoveThenAddIsIdentity ==
    (kind = "AvailableList") =>
        \A t \in CallsOf("remove") :
            LET i == calls[t].arg
                b == calls[t].before
                a == calls[t].after
            IN /\ ~calls[t].panic
               /\ a[i] = b[i]
               /\ IsSome(b[i].prev) => a[Unwrap(b[i].prev)].next = b[i].next
               /\ IsSome(b[i].next) => a[Unwrap(b[i].next)].prev = b[i].prev
               /\ (/\ (t + 1) \in CallsOf("add")
                   /\ calls[t + 1].arg = i)
                  => /\ ~calls[t + 1].panic
                     /\ calls[t + 1].after = b

C23_Witness ==
    /\ kind = "AvailableList"
    /\ size = 3
    /\ Len(calls) = 4
    /\ calls[1].op = "remove_first"
    /\ calls[2].op = "remove" /\ calls[2].arg = 2
    /\ calls[3].op = "add" /\ calls[3].arg = 2
    /\ calls[3].after = calls[2].before
    /\ calls[4].op = "add" /\ calls[4].arg = 1

\* call r took index i out of the list
RemovedBy(r, i) ==
    \/ calls[r].op = "remove" /\ calls[r].arg = i
    \/ calls[r].op \in {"remove_first", "swap_for_next"} /\ calls[r].ret = Some(i)

\* the set of indices available in the entries e
AvailableIn(e) == {AvailableSeq(e)[j] : j \in DOMAIN AvailableSeq(e)}

\* C22: swap_for_next(i), called when the list is in the state it had right
\* after i was removed, puts i back and removes and returns the smallest
\* available index greater than i; when there is none it returns None and the
\* only change is that i is available again.
C22_SwapForNext ==
    (kind = "AvailableList") =>
        \A t \in CallsOf("swap_for_next") :
            LET i == calls[t].arg
                b == calls[t].before
                a == calls[t].after
                larger == {x \in AvailableIn(b) : x > i}
                next == CHOOSE x \in larger : \A y \in larger : x <= y
            IN (\E r \in 1..(t - 1) : RemovedBy(r, i) /\ calls[r].after = b) =>
                 /\ ~calls[t].panic
                 /\ IF larger = {}
                    THEN /\ calls[t].ret = None
                         /\ AvailableSeq(a) = SetToSortedSeq(AvailableIn(b) \cup {i})
                         /\ \A r \in 1..(t - 1) :
                              (calls[r].op = "remove" /\ calls[r].arg = i
                                 /\ calls[r].after = b) => a = calls[r].before
                    ELSE /\ calls[t].ret = Some(next)
                         /\ AvailableSeq(a)
                              = SetToSortedSeq((AvailableIn(b) \cup {i}) \ {next})

C22_Witness ==
    /\ kind = "AvailableList"
    /\ size = 3
    /\ Len(calls) = 4
    /\ calls[1].op = "remove" /\ calls[1].arg = 2
    /\ calls[2].op = "swap_for_next" /\ calls[2].arg = 2 /\ calls[2].ret = Some(3)
    /\ calls[3].op = "swap_for_next" /\ calls[3].arg = 3 /\ calls[3].ret = None
    /\ calls[4].op = "remove_first" /\ calls[4].ret = Some(1)
    /\ AvailableSeq(entries) = <<2, 3>>

\* every position is an index of the domain
InDomain(p) == \A j \in DOMAIN p : p[j] >= 0 /\ p[j] < Len(elements)

\* C27: in every reachable state of a Combinations generator the position
\* vector is strictly increasing and every index lies in [0, N).
C27_PositionsStrictlyIncreasing ==
    (kind = "Combinations") =>
        /\ StrictlyIncreasing(positions)
        /\ InDomain(positions)

\* C27 as amended: the same for Combinations::all and for of_size with
\* size <= N; of_size with size > N holds 0, 1, ..., size-1 throughout.
C27_PositionsWithinDomainSize ==
    (kind = "Combinations") =>
        /\ StrictlyIncreasing(positions)
        /\ IF ctor = "all" \/ size <= DistinctCount
           THEN InDomain(positions)
           ELSE positions = [i \in 1..size |-> i - 1]

C27_Witness ==
    /\ kind = "Combinations" /\ ctor = "of_size"
    /\ DistinctCount = 3 /\ size = 2
    /\ positions = <<1, 2>>
    /\ done

\* C28: in every reachable state of a CombinationsWithReplacement generator
\* the position vector is non-decreasing and every index lies in [0, N).
C28_PositionsNonDecreasing ==
    (kind = "CombinationsWithReplacement") =>
        /\ NonDecreasing(positions)
        /\ InDomain(positions)

\* C28 as amended: the same over a non-empty domain; over an empty domain
\* of_size(k) holds k zeros throughout.
C28_PositionsOverNonEmptyDomain ==
    (kind = "CombinationsWithReplacement") =>
        /\ NonDecreasing(positions)
        /\ IF DistinctCount >= 1
           THEN InDomain(positions)
           ELSE positions = [i \in 1..size |-> 0]

C28_Witness ==
    /\ kind = "CombinationsWithReplacement" /\ ctor = "of_size"
    /\ DistinctCount = 3 /\ size = 4
    /\ positions = <<2, 2, 2, 2>>
    /\ done

----------------------------------------------------------------------------
\* The private methods of the combination structs called directly, as the
\* unit tests do: the struct holds a sorted domain and a position vector of
\* any values, and one method is called on it.  `calls` records each call:
\* the positions before and after, and what it returned.

PositionVectors == UNION {[1..n -> 0..MaxLen] : n \in 0..MaxPositions}

PositionInit ==
    /\ profile \in Profiles
    /\ kind \in {"Combinations", "CombinationsWithReplacement"}
    /\ ctor = "fields"
    /\ input \in {[i \in 1..n |-> i] : n \in 0..MaxLen}
    /\ elements = iterable_to_sorted_set(input)
    /\ positions \in PositionVectors
    /\ size = Len(positions)
    /\ all_sizes \in BOOLEAN
    /\ done = FALSE
    /\ entries = <<>>
    /\ stack = <<>>
    /\ perm_length = 0
    /\ panicked = FALSE
    /\ returned = <<>>
    /\ captured = <<>>
    /\ list_ops = <<>>
    /\ calls = <<>>

\* what a direct call op that left the struct self and returned ret leaves
\* behind
StepPosition(op, self, ret, panic) ==
    /\ panicked' = panic
    /\ positions' = IF panic THEN positions ELSE self.positions
    /\ done' = IF panic THEN done ELSE self.done
    /\ calls' = Append(calls, [op |-> op, before |-> positions,
                               after |-> self.positions, ret |-> ret,
                               panic |-> panic])
    /\ UNCHANGED <<profile, input, kind, ctor, size, elements, all_sizes,
                   entries, stack, perm_length, returned, captured, list_ops>>

CallCombinationsMoveToNextPosition ==
    /\ kind = "Combinations" /\ ctor = "fields"
    /\ ~panicked
    /\ Len(calls) < MaxPositionCalls
    /\ \E r \in {Combinations_move_to_next_position(CombinationSelf)} :
         StepPosition("move_to_next_position", r.self, r.ret, r.panic)

CallCombinationsMoveToNextSetSize ==
    /\ kind = "Combinations" /\ ctor = "fields"
    /\ ~panicked
    /\ Len(calls) < MaxPositionCalls
    /\ \E r \in {Combinations_move_to_next_set_size(CombinationSelf)} :
         StepPosition("move_to_next_set_size", r.self, r.ret, FALSE)

CallCombinationsNextDirect ==
    /\ kind = "Combinations" /\ ctor = "fields"
    /\ ~panicked
    /\ Len(calls) < MaxPositionCalls
    /\ \E r \in {Combinations_next(CombinationSelf)} :
         StepPosition("next", r.self, r.ret, r.panic)

CallCombinationsWithReplacementMoveToNextPosition ==
    /\ kind = "CombinationsWithReplacement" /\ ctor = "fields"
    /\ ~panicked
    /\ Len(calls) < MaxPositionCalls
    /\ \E r \in {CombinationsWithReplacement_move_to_next_position(CombinationSelf)} :
         StepPosition("move_to_next_position", r.self, r.ret, FALSE)

CallCombinationsWithReplacementMoveToNextSetSize ==
    /\ kind = "CombinationsWithReplacement" /\ ctor = "fields"
    /\ ~panicked
    /\ Len(calls) < MaxPositionCalls
    /\ \E r \in {CombinationsWithReplacement_move_to_next_set_size(CombinationSelf)} :
         StepPosition("move_to_next_set_size", r.self, r.ret, FALSE)

CallCombinationsWithReplacementNextDirect ==
    /\ kind = "CombinationsWithReplacement" /\ ctor = "fields"
    /\ ~panicked
    /\ Len(calls) < MaxPositionCalls
    /\ \E r \in {CombinationsWithReplacement_next(CombinationSelf)} :
         StepPosition("next", r.self, r.ret, r.panic)

PositionNext ==
    \/ CallCombinationsMoveToNextPosition
    \/ CallCombinationsMoveToNextSetSize
    \/ CallCombinationsNextDirect
    \/ CallCombinationsWithReplacementMoveToNextPosition
    \/ CallCombinationsWithReplacementMoveToNextSetSize
    \/ CallCombinationsWithReplacementNextDirect

PositionSpec == PositionInit /\ [][PositionNext]_vars

\* the position vectors of length len over a domain of n elements
InRange(p, n) == \A j \in DOMAIN p : p[j] >= 0 /\ p[j] < n

\* a is the least vector above b among the vectors of b's length over n
\* elements that satisfy Shape
LexNext(b, a, n, Shape(_)) ==
    /\ Len(a) = Len(b)
    /\ InRange(a, n)
    /\ Shape(a)
    /\ LexLess(b, a)
    /\ \A c \in PositionVectors :
         (Len(c) = Len(b) /\ InRange(c, n) /\ Shape(c) /\ LexLess(b, c)) =>
             (c = a \/ LexLess(a, c))

\* C25: Combinations::move_to_next_position, applied to a strictly increasing
\* position vector of length k <= N over N >= 1 elements, replaces it with
\* the lexicographically next strictly increasing vector of the same length
\* and returns true; it returns false and leaves the vector unchanged exactly
\* when the vector is the last one [N-k, ..., N-1], and always returns false
\* when N = 0.
C25_CombinationsNextPosition ==
    (kind = "Combinations" /\ ctor = "fields") =>
        \A t \in CallsOf("move_to_next_position") :
            LET b == calls[t].before
                a == calls[t].after
                n == Len(elements)
                k == Len(b)
            IN /\ n = 0 => (~calls[t].panic /\ calls[t].ret = FALSE /\ a = b)
               /\ (n >= 1 /\ k <= n /\ StrictlyIncreasing(b) /\ InRange(b, n)) =>
                    /\ ~calls[t].panic
                    /\ IF b = [j \in 1..k |-> n - k + j - 1]
                       THEN calls[t].ret = FALSE /\ a = b
                       ELSE /\ calls[t].ret = TRUE
                            /\ LexNext(b, a, n, StrictlyIncreasing)

C25_Witness ==
    /\ kind = "Combinations" /\ ctor = "fields"
    /\ Len(elements) = 3
    /\ Len(calls) = 1
    /\ calls[1].op = "move_to_next_position"
    /\ calls[1].before = <<0, 2>>
    /\ calls[1].ret = TRUE
    /\ positions = <<1, 2>>

\* C26: CombinationsWithReplacement::move_to_next_position finds the rightmost
\* position whose value is < N-1, sets it and every position to its right to
\* that value plus one, and returns true, which yields the lexicographically
\* next non-decreasing vector of the same length; it returns false and leaves
\* the vector unchanged exactly when every position equals N-1 (or the vector
\* is empty, or N = 0).
C26_WithReplacementNextPosition ==
    (kind = "CombinationsWithReplacement" /\ ctor = "fields") =>
        \A t \in CallsOf("move_to_next_position") :
            LET b == calls[t].before
                a == calls[t].after
                n == Len(elements)
                below == {j \in DOMAIN b : b[j] < n - 1}
                rightmost == CHOOSE j \in below : \A i \in below : i <= j
            IN /\ ~calls[t].panic
               /\ n = 0 => (calls[t].ret = FALSE /\ a = b)
               /\ n >= 1 =>
                    IF below = {}
                    THEN calls[t].ret = FALSE /\ a = b
                    ELSE /\ calls[t].ret = TRUE
                         /\ a = [j \in DOMAIN b |->
                                   IF j < rightmost THEN b[j] ELSE b[rightmost] + 1]
               /\ (n >= 1 /\ InRange(b, n)) =>
                    (calls[t].ret = FALSE <=> \A j \in DOMAIN b : b[j] = n - 1)
               /\ (n >= 1 /\ InRange(b, n) /\ NonDecreasing(b) /\ calls[t].ret = TRUE) =>
                    LexNext(b, a, n, NonDecreasing)

C26_Witness ==
    /\ kind = "CombinationsWithReplacement" /\ ctor = "fields"
    /\ Len(elements) = 3
    /\ Len(calls) = 1
    /\ calls[1].op = "move_to_next_position"
    /\ calls[1].before = <<0, 2, 2>>
    /\ calls[1].ret = TRUE
    /\ positions = <<1, 1, 1>>

\* the successor rule of the struct's kind applied to the positions p
SuccessorRule(p) ==
    IF kind = "Combinations"
    THEN Combinations_move_to_next_position([CombinationSelf EXCEPT !.positions = p])
    ELSE [panic |-> FALSE] @@
         CombinationsWithReplacement_move_to_next_position(
             [CombinationSelf EXCEPT !.positions = p])

\* C29: move_to_next_set_size on a position vector of length s: if s < N it
\* returns true and, whatever the position values were, the vector becomes
\* [0, 1, ..., s] for Combinations and s+1 zeros for
\* CombinationsWithReplacement; if s >= N it returns false and leaves the
\* vector unchanged.  In all-sizes mode next() invokes it only after the
\* successor rule has failed for the current size.
C29_MoveToNextSetSize ==
    (ctor = "fields") =>
        /\ \A t \in CallsOf("move_to_next_set_size") :
             LET b == calls[t].before
                 a == calls[t].after
                 s == Len(b)
             IN /\ ~calls[t].panic
                /\ IF s < Len(elements)
                   THEN /\ calls[t].ret = TRUE
                        /\ a = [j \in 1..(s + 1) |->
                                  IF kind = "Combinations" THEN j - 1 ELSE 0]
                   ELSE calls[t].ret = FALSE /\ a = b
        /\ \A t \in CallsOf("next") :
             LET b == calls[t].before
                 a == calls[t].after
             IN (~calls[t].panic /\ a # b) =>
                  IF SuccessorRule(b).ret
                  THEN a = SuccessorRule(b).self.positions
                  ELSE /\ all_sizes
                       /\ Len(b) < Len(elements)
                       /\ Len(a) = Len(b) + 1

C29_Witness ==
    /\ kind = "Combinations" /\ ctor = "fields"
    /\ Len(elements) = 3
    /\ Len(calls) = 1
    /\ calls[1].op = "move_to_next_set_size"
    /\ calls[1].before = <<3, 1>>
    /\ calls[1].ret = TRUE
    /\ positions = <<0, 1, 2>>

\* the passes of the backtracking loop made so far
LoopPasses == {t \in DOMAIN calls : calls[t].op = "loop"}

\* the first pass of the next() call that made pass t
FirstPass(t) ==
    CHOOSE s \in LoopPasses :
        /\ s <= t
        /\ calls[s].pass = 1
        /\ \A u \in LoopPasses : (u <= t /\ calls[u].pass = 1) => u <= s

\* no next() call makes more passes of the loop than the length its stack had
\* on entry, plus one
PassesBounded ==
    \A t \in LoopPasses : calls[t].pass <= Len(calls[FirstPass(t)].stack) + 1

\* C31: every next() call of every generator terminates (the backtracking
\* loop of Permutations makes at most stack length + 1 passes), and a caller
\* that keeps calling next() receives None: after MaxCalls calls, more than
\* any generator over the bounded inputs has results, None has been returned.
C31_TerminatesWithNone ==
    /\ PassesBounded
    /\ Len(returned) = MaxCalls => HasReturnedNone

\* a combination generator on which next() has not been called yet
JustConstructed ==
    /\ kind \in {"Combinations", "CombinationsWithReplacement"}
    /\ ctor \in {"all", "of_size"}
    /\ returned = <<>>

\* C32: construction sets the initial state: of_size(input, k) gives
\* positions [0, 1, ..., k-1] for Combinations and k zeros for
\* CombinationsWithReplacement, even when k > N, with all_sizes = false and
\* done = false; all(input) gives an empty position vector with
\* all_sizes = true and done = false.
C32_ConstructedState ==
    JustConstructed =>
        /\ done = FALSE
        /\ ~panicked
        /\ IF ctor = "of_size"
           THEN /\ all_sizes = FALSE
                /\ positions = [j \in 1..size |->
                                  IF kind = "Combinations" THEN j - 1 ELSE 0]
           ELSE /\ all_sizes = TRUE
                /\ positions = <<>>

C32_Witness ==
    /\ JustConstructed
    /\ kind = "Combinations"
    /\ ctor = "of_size"
    /\ Len(elements) = 2
    /\ size = 4
    /\ positions = <<0, 1, 2, 3>>

\* this step is a next() call that returned to its caller
NextReturned == Len(returned') = Len(returned) + 1

\* the value that call returned
LastReturned == returned'[Len(returned')]

\* C33: a next() call returns None only in the terminal state: whenever
\* next() returns None the done flag is true after the call, and whenever
\* done is false before a call that call returns Some.
C33_NoneOnlyWhenDone ==
    [][NextReturned =>
          /\ IsNone(LastReturned) => done'
          /\ ~done => IsSome(LastReturned)]_vars

\* AvailableList::new panicked: the constructor failed before its first
\* fill_remaining_perm call
NewListPanicked == kind = "Permutations" /\ panicked /\ calls = <<>>

\* a link of the available list holds a wrapped difference
WrappedLink ==
    \E i \in DOMAIN entries :
        entries[i].prev = Some(USIZE_MAX) \/ entries[i].next = Some(USIZE_MAX)

\* C34: no usize subtraction executed by a constructor or by next()
\* underflows: with overflow checks no subtraction panics, without them no
\* wrapped difference is stored, and every stack entry mapped to an element
\* with `i - 1` is >= 1.
C34_NoUnderflow ==
    /\ kind \in {"Combinations", "CombinationsWithReplacement"} => ~panicked
    /\ ~NewListPanicked
    /\ ~WrappedLink
    /\ kind = "Permutations" => \A j \in DOMAIN stack : stack[j] >= 1

\* this step is a next() call (the instance exists before the step)
NextCalled == kind # "none"

\* C35: next() never modifies the stored domain (elements) of any generator,
\* and once a generator is terminal (done = true) a further next() call
\* leaves its entire state unchanged (positions / stack, available list,
\* perm_length, all_sizes, done).
C35_NextFrame ==
    [][NextCalled =>
          /\ elements' = elements
          /\ done => UNCHANGED <<positions, stack, entries, perm_length,
                                 all_sizes, done>>]_vars

C35_Witness ==
    /\ kind = "Permutations"
    /\ ctor = "all"
    /\ Len(elements) = 1
    /\ done
    /\ perm_length = 2
    /\ Len(returned) = 4
    /\ IsNone(returned[3]) /\ IsNone(returned[4])

====
